---- MODULE Spec2Model ----
(***************************************************************************)
(* A state-machine model of egui's Context (egui/src/context.rs): the      *)
(* frame lifecycle (begin_frame / end_frame), the repaint counter, the     *)
(* staged options (style, font definitions) and the interaction resolver   *)
(* (interact).                                                             *)
(*                                                                         *)
(* Coordinates are integers counting half points (f32 points in the code), *)
(* Option<T> is a set with at most one element, and an Id is a positive    *)
(* integer.                                                                *)
(***************************************************************************)
EXTENDS Integers, FiniteSets, Sequences, TLC

(***************************************************************************)
(* Bounds of the model.                                                    *)
(***************************************************************************)
\* the pointer is at the even x positions 0, 2, ..., 2 * MaxCoord
MaxCoord == 2
\* widget identifiers are 1..NumIds
NumIds == 2
\* the frames-since-the-latest-request history counter saturates here
MaxAge == 3

(***************************************************************************)
(* Option<T>                                                               *)
(***************************************************************************)
None == {}
Some(x) == {x}
IsSome(o) == o # {}
IsNone(o) == o = {}
Unwrap(o) == CHOOSE x \in o : TRUE

(***************************************************************************)
(* Geometry: Pos2 / Vec2 / Rect                                            *)
(***************************************************************************)
Inf == 1000
pos2(px, py) == [x |-> px, y |-> py]
vec2(vx, vy) == [x |-> vx, y |-> vy]
RectOf(minx, miny, maxx, maxy) == [min |-> pos2(minx, miny), max |-> pos2(maxx, maxy)]
RectNothing == RectOf(Inf, Inf, -Inf, -Inf)
RectFromMinSize(p, size) == [min |-> p, max |-> pos2(p.x + size.x, p.y + size.y)]
Max2(a, b) == IF a >= b THEN a ELSE b
Min2(a, b) == IF a <= b THEN a ELSE b
RectIntersect(a, b) ==
    [min |-> pos2(Max2(a.min.x, b.min.x), Max2(a.min.y, b.min.y)),
     max |-> pos2(Min2(a.max.x, b.max.x), Min2(a.max.y, b.max.y))]
RectExpand2(r, v) ==
    [min |-> pos2(r.min.x - v.x, r.min.y - v.y),
     max |-> pos2(r.max.x + v.x, r.max.y + v.y)]
RectContains(r, p) ==
    /\ r.min.x <= p.x /\ p.x <= r.max.x
    /\ r.min.y <= p.y /\ p.y <= r.max.y
Abs(n) == IF n < 0 THEN -n ELSE n
\* distance between two grid points (the larger of the two axis distances)
Distance(p, q) == Max2(Abs(p.x - q.x), Abs(p.y - q.y))

(***************************************************************************)
(* Identifiers, layers, senses                                             *)
(***************************************************************************)
Ids == 1..NumIds
\* the identifier of the one floating window of the scene
WindowId == NumIds + 1
LayerBackground == "background"
LayerWindow == "window"
Layers == {LayerBackground, LayerWindow}
SenseNothing == [click |-> FALSE, drag |-> FALSE]
Senses == [click : BOOLEAN, drag : BOOLEAN]

(***************************************************************************)
(* Style and FontDefinitions (the fields the Context reads)                *)
(***************************************************************************)
\* 0.5 * item_spacing is an integer in both styles
DefaultStyle ==
    [item_spacing |-> vec2(2, 2), resize_grab_radius_side |-> 1, animation_time |-> 2]
AltStyle ==
    [item_spacing |-> vec2(0, 0), resize_grab_radius_side |-> 0, animation_time |-> 1]
Styles == {DefaultStyle, AltStyle}
HalfVec(v) == vec2(v.x \div 2, v.y \div 2)

PixelsPerPoint == {1, 2}
FontFamilies == {"default", "custom"}
FontDefinitionsSet == [pixels_per_point : PixelsPerPoint, family : FontFamilies]
DefaultFontDefinitions == [pixels_per_point |-> 1, family |-> "default"]
\* Fonts::from_definitions: the font set built from the definitions
FontsFromDefinitions(fd) == [definitions |-> fd]

VARIABLES
    phase,            \* where the application's frame loop is: "outside" | "inside"
    input,            \* Context::input (InputState)
    memory,           \* Context::memory (interaction slots, areas)
    options,          \* Context::options (style, font_definitions)
    fonts,            \* Context::fonts : Option<Arc<Fonts>>
    available_rect,   \* Context::available_rect : Option<Rect>
    used_by_panels,   \* Context::used_by_panels : Option<Rect>
    used_ids,         \* Context::used_ids (the ids registered this frame)
    repaint_requests, \* Context::repaint_requests
    animation_manager, \* Context::animation_manager (one record per identifier seen)
    graphics,         \* Context::graphics (the error markup on the debug layer)
    ret,              \* the value returned by the latest call
    \* history variables (not state of the program)
    claim,            \* first interact claimant of click / drag in the latest press frame,
                      \* and whether a later claimant with another identifier was refused
    strayed,          \* the pointer left the click radius (or the surface) since the latest press
    req_age,          \* begin_frame calls since the latest request_repaint (-1: none yet)
    req_inside,       \* the latest request_repaint was made between begin_frame and end_frame
    flagged,          \* end_frame outputs with needs_repaint since the latest request_repaint
    req_calls,        \* request_repaint calls in the frame of the latest one (saturating)
    style_at_begin,   \* the style that was active at the latest begin_frame
    installed_style,  \* the style passed to the latest set_style (the default before any)
    hist,             \* what has happened in the current frame and the current press
    mutex_owner,      \* for each Mutex of the Context, the thread that holds it (or none)
    thread_call       \* for each thread, the call it is in and how far it has come

vars == <<phase, input, memory, options, fonts, available_rect, used_by_panels,
          used_ids, repaint_requests, animation_manager, graphics, ret, claim,
          strayed, req_age, req_inside, flagged, req_calls, style_at_begin,
          installed_style, hist, mutex_owner, thread_call>>

(***************************************************************************)
(* Threads and mutexes                                                     *)
(***************************************************************************)
NumThreads == 2
Threads == 1..NumThreads
NoThread == 0
\* the Mutex fields of the Context
Mutexes == {"options", "memory", "animation_manager", "available_rect",
            "used_by_panels", "graphics", "output", "used_ids", "paint_stats"}
\* a thread that is in no call
Idle == [call |-> "none", at |-> 0]

(***************************************************************************)
(* InputState                                                              *)
(***************************************************************************)
\* the pointer may not move further than this from where it was pressed
MaxClickDist == 3

DefaultMouse ==
    [pos |-> None, down |-> FALSE, pressed |-> FALSE, released |-> FALSE,
     could_be_click |-> FALSE, double_click |-> FALSE, press_origin |-> None]
DefaultInput ==
    [mouse |-> DefaultMouse, screen_size |-> vec2(0, 0), pixels_per_point |-> 1,
     wants_repaint |-> FALSE]

ScreenRect(inp) == RectFromMinSize(pos2(0, 0), inp.screen_size)

\* MouseInput::begin_frame: the new pointer state from the previous one and the raw input
MouseBeginFrame(prev, raw) ==
    LET pressed == raw.mouse_down /\ ~prev.down
        released == ~raw.mouse_down /\ prev.down
        origin == IF pressed THEN raw.mouse_pos
                  ELSE IF prev.down THEN prev.press_origin
                  ELSE None
        near == /\ IsSome(origin)
                /\ IsSome(raw.mouse_pos)
                /\ Distance(Unwrap(origin), Unwrap(raw.mouse_pos)) < MaxClickDist
        could == (pressed \/ prev.could_be_click) /\ near
    IN  [pos |-> raw.mouse_pos, down |-> raw.mouse_down, pressed |-> pressed,
         released |-> released, could_be_click |-> could,
         double_click |-> released /\ could /\ raw.fast_click,
         press_origin |-> origin]

\* InputState::begin_frame
InputBeginFrame(prev, raw) ==
    [mouse |-> MouseBeginFrame(prev.mouse, raw),
     screen_size |-> raw.screen_size,
     pixels_per_point |-> raw.pixels_per_point,
     wants_repaint |-> raw.wants_repaint]

(***************************************************************************)
(* Memory                                                                  *)
(***************************************************************************)
DefaultInteraction ==
    [kb_focus_id |-> None, click_id |-> None, drag_id |-> None,
     drag_is_window |-> FALSE, click_interest |-> FALSE, drag_interest |-> FALSE]
DefaultMemory ==
    [interaction |-> DefaultInteraction, window_interaction |-> None,
     areas |-> [l \in Layers |-> None]]

\* Interaction::begin_frame: the interest flags are computed afresh each frame, and
\* ownership is released once the pointer is up
InteractionBeginFrameKeeping(it, prev_input) ==
    [it EXCEPT !.click_interest = FALSE, !.drag_interest = FALSE]
InteractionBeginFrame(it, prev_input) ==
    LET up == ~prev_input.mouse.down
    IN  [it EXCEPT !.click_interest = FALSE,
                   !.drag_interest = FALSE,
                   !.click_id = IF up THEN None ELSE @,
                   !.drag_id = IF up THEN None ELSE @]

\* Memory::begin_frame
MemoryBeginFrame(mem, prev_input) ==
    [mem EXCEPT !.interaction = InteractionBeginFrame(@, prev_input),
                !.window_interaction = IF ~prev_input.mouse.down THEN None ELSE @]

\* Memory::end_frame: only bookkeeping of which areas were shown, which is not modelled
MemoryEndFrame(mem) == mem

\* Areas::set_state
AreasSetState(mem, layer, state) == [mem EXCEPT !.areas[layer] = Some(state)]

AreaRect(state) == RectFromMinSize(state.pos, state.size)

\* Memory::layer_id_at: the topmost interactable area under the position; the window
\* is above the background and is grabbed within resize_grab_radius_side of its edge
LayerIdAt(mem, style, p) ==
    LET grab == vec2(style.resize_grab_radius_side, style.resize_grab_radius_side)
        hit(l) == /\ IsSome(mem.areas[l])
                  /\ Unwrap(mem.areas[l]).interactable
                  /\ RectContains(RectExpand2(AreaRect(Unwrap(mem.areas[l])), grab), p)
    IN  IF hit(LayerWindow) THEN Some(LayerWindow)
        ELSE IF hit(LayerBackground) THEN Some(LayerBackground)
        ELSE None

(***************************************************************************)
(* AnimationManager                                                        *)
(***************************************************************************)
\* the progress 1.0: a progress is one of 0 .. ProgressOne
ProgressOne == 2
DefaultAnimationManager == [i \in Ids |-> None]

\* time is kept relative to the clock of the input: a record holds the time since it
\* was last updated (beyond the longest animation time the progress has saturated),
\* and the clock advancing by dt makes every record older
AnimationClockAdvance(am, dt) ==
    [i \in Ids |-> IF IsNone(am[i]) THEN None
                   ELSE Some([Unwrap(am[i]) EXCEPT !.age = Min2(@ + dt, ProgressOne)])]

\* AnimationManager::animate_bool: the progress returned and the records left behind.
\* The first observation returns 1.0 or 0.0; a later one moves the progress towards
\* the target in proportion to the time since the record was updated.
AnimateBoolResult(am, animation_time, id, value) ==
    IF IsNone(am[id])
    THEN LET v == IF value THEN ProgressOne ELSE 0
         IN  [value |-> v,
              manager |-> [am EXCEPT ![id] = Some([value |-> value, age |-> 0,
                                                   progress |-> v])]]
    ELSE LET anim == Unwrap(am[id])
             step == (anim.age * ProgressOne) \div animation_time
             v == IF value THEN Min2(anim.progress + step, ProgressOne)
                  ELSE Max2(anim.progress - step, 0)
         IN  [value |-> v,
              manager |-> [am EXCEPT ![id] = Some([value |-> value, age |-> 0,
                                                   progress |-> v])]]

(***************************************************************************)
(* The history of the current frame and of the current press               *)
(***************************************************************************)
DefaultHist ==
    [begun |-> FALSE,                  \* begin_frame has run
     central_calls |-> 0,              \* allocate_central_panel calls in the frame (up to 2)
     registered |-> [i \in Ids |-> 0], \* registrations of each identifier in the frame (up to 2)
     registered_before |-> {},         \* the identifiers registered in the frame before
     animating |-> FALSE,              \* an animate_bool of the frame returned a progress in between
     press_outside |-> FALSE,          \* the pointer is held since a press over no area
     press_claimed |-> FALSE,          \* click or drag was claimed in the frame of that press
     resized_after_panels |-> FALSE]   \* the frame began on a screen of another size than the
                                       \* frame before, which had allocated panels

(***************************************************************************)
(* Init: Context::default()                                                *)
(***************************************************************************)
Init ==
    /\ phase = "outside"
    /\ input = DefaultInput
    /\ memory = DefaultMemory
    /\ options = [style |-> DefaultStyle, font_definitions |-> DefaultFontDefinitions]
    /\ fonts = None
    /\ available_rect = None
    /\ used_by_panels = None
    /\ used_ids = {}
    /\ repaint_requests = 0
    /\ animation_manager = DefaultAnimationManager
    /\ graphics = {}
    /\ ret = [op |-> "new"]
    /\ claim = [click |-> None, drag |-> None, refused |-> FALSE]
    /\ strayed = FALSE
    /\ req_age = -1
    /\ req_inside = FALSE
    /\ flagged = 0
    /\ req_calls = 0
    /\ style_at_begin = DefaultStyle
    /\ installed_style = DefaultStyle
    /\ hist = DefaultHist
    /\ mutex_owner = [m \in Mutexes |-> NoThread]
    /\ thread_call = [t \in Threads |-> Idle]

(***************************************************************************)
(* The raw input handed to begin_frame                                     *)
(***************************************************************************)
ScreenSize == vec2(2 * MaxCoord, 2)
PointerPositions == {pos2(2 * k, 1) : k \in 0..MaxCoord}
\* a frame of pointer input on a fixed screen; fast_click says whether a click of
\* this frame would fall in the double-click window of the previous click
RawMouseInputs ==
    [mouse_down : BOOLEAN,
     mouse_pos : {None} \cup {Some(p) : p \in PointerPositions},
     fast_click : BOOLEAN,
     screen_size : {ScreenSize},
     pixels_per_point : {1},
     wants_repaint : {FALSE},
     dt : {1}]
\* a frame with an idle pointer: the pixel density and the repaint hint vary
RawFrameInputs ==
    [mouse_down : {FALSE},
     mouse_pos : {None},
     fast_click : {FALSE},
     screen_size : {ScreenSize},
     pixels_per_point : PixelsPerPoint,
     wants_repaint : BOOLEAN,
     dt : {1}]
\* a frame with an idle pointer on a screen of one of two sizes
ScreenSizes == {ScreenSize, vec2(2, 2)}
RawResizedInputs ==
    [mouse_down : {FALSE},
     mouse_pos : {None},
     fast_click : {FALSE},
     screen_size : ScreenSizes,
     pixels_per_point : {1},
     wants_repaint : {FALSE},
     dt : {1}]
\* a frame with an idle pointer and nothing else
RawIdleInputs ==
    [mouse_down : {FALSE},
     mouse_pos : {None},
     fast_click : {FALSE},
     screen_size : {ScreenSize},
     pixels_per_point : {1},
     wants_repaint : {FALSE},
     dt : {1}]
\* a frame with an idle pointer after one or two units of time
RawTimedInputs ==
    [mouse_down : {FALSE},
     mouse_pos : {None},
     fast_click : {FALSE},
     screen_size : {ScreenSize},
     pixels_per_point : {1},
     wants_repaint : {FALSE},
     dt : {1, 2}]

(***************************************************************************)
(* request_repaint                                                         *)
(***************************************************************************)
\* request_repaint stores times_to_repaint whatever the counter holds
RepaintStoreCompounding(c) == Min2(c + 2, 4)
TimesToRepaintOnce == 2 - 1
TimesToRepaint == 2
RepaintStore(c) == TimesToRepaint

RequestRepaint ==
    /\ repaint_requests' = RepaintStore(repaint_requests)
    /\ ret' = [op |-> "request_repaint"]
    /\ req_age' = 0
    /\ req_inside' = (phase = "inside")
    /\ flagged' = 0
    /\ req_calls' = IF req_age = 0 /\ req_inside = (phase = "inside")
                    THEN Min2(req_calls + 1, MaxAge)
                    ELSE 1
    /\ UNCHANGED <<mutex_owner, thread_call,
                   phase, input, memory, options, fonts, available_rect,
                   used_by_panels, used_ids, claim, strayed, style_at_begin,
                   installed_style,
                   animation_manager, graphics, hist>>

(***************************************************************************)
(* The pointer over the areas                                              *)
(***************************************************************************)
\* Context::layer_id_at
ContextLayerIdAt(mem, style, p) == LayerIdAt(mem, style, p)

\* Context::contains_mouse
ContainsMouseAnyLayer(mem, style, inp, layer_id, clip_rect, rect) ==
    /\ IsSome(inp.mouse.pos)
    /\ RectContains(RectIntersect(rect, clip_rect), Unwrap(inp.mouse.pos))
ContainsMouse(mem, style, inp, layer_id, clip_rect, rect) ==
    LET r == RectIntersect(rect, clip_rect)
    IN  IF IsSome(inp.mouse.pos)
        THEN /\ RectContains(r, Unwrap(inp.mouse.pos))
             /\ ContextLayerIdAt(mem, style, Unwrap(inp.mouse.pos)) = Some(layer_id)
        ELSE FALSE

\* Context::is_mouse_over_area
IsMouseOverArea(mem, style, inp, avail) ==
    IF IsSome(inp.mouse.pos)
    THEN LET mouse_pos == Unwrap(inp.mouse.pos)
             layer == ContextLayerIdAt(mem, style, mouse_pos)
         IN  IF IsSome(layer)
             THEN IF Unwrap(layer) = LayerBackground
                  THEN IF IsSome(avail)
                       THEN ~RectContains(Unwrap(avail), mouse_pos)
                       ELSE FALSE
                  ELSE TRUE
             ELSE FALSE
    ELSE FALSE

\* Interaction::is_using_mouse
InteractionIsUsingMouse(it) == IsSome(it.click_id) \/ IsSome(it.drag_id)

\* Context::is_using_mouse
IsUsingMouse(mem) == InteractionIsUsingMouse(mem.interaction)

\* Context::wants_mouse_input
WantsMouseInputIgnoringDown(mem, style, inp, avail) ==
    IsUsingMouse(mem) \/ IsMouseOverArea(mem, style, inp, avail)
WantsMouseInput(mem, style, inp, avail) ==
    IsUsingMouse(mem) \/ (IsMouseOverArea(mem, style, inp, avail) /\ ~inp.mouse.down)

(***************************************************************************)
(* begin_frame                                                             *)
(***************************************************************************)
\* begin_frame_mut: the definitions the fonts are compared with and rebuilt from
FontDefinitionsForFrame(opts, inp) ==
    [opts.font_definitions EXCEPT !.pixels_per_point = inp.pixels_per_point]

\* begin_frame_mut: same_as_current
SameAsCurrent(f, fd) ==
    IF IsNone(f) THEN FALSE ELSE Unwrap(f).definitions = fd

BackgroundAreaState(inp) ==
    [pos |-> ScreenRect(inp).min,
     size |-> vec2(ScreenRect(inp).max.x - ScreenRect(inp).min.x,
                   ScreenRect(inp).max.y - ScreenRect(inp).min.y),
     interactable |-> TRUE]

\* begin_frame_mut: the available rectangle is computed after the new input is installed
AvailableAtBeginStale(prev_input, inp) == Some(ScreenRect(prev_input))
AvailableAtBegin(prev_input, inp) == Some(ScreenRect(inp))

BeginFrame(raw) ==
    /\ phase = "outside"
    /\ phase' = "inside"
    /\ LET mem1 == MemoryBeginFrame(memory, input)
           inp == InputBeginFrame(input, raw)
           fd == FontDefinitionsForFrame(options, inp)
           same == SameAsCurrent(fonts, fd)
       IN  /\ input' = inp
           /\ used_ids' = {}
           /\ available_rect' = AvailableAtBegin(input, inp)
           /\ used_by_panels' = Some(RectNothing)
           /\ fonts' = IF same THEN fonts ELSE Some(FontsFromDefinitions(fd))
           /\ memory' = AreasSetState(mem1, LayerBackground, BackgroundAreaState(inp))
           /\ ret' = [op |-> "begin_frame", rebuilt |-> ~same]
           /\ hist' =
                 [begun |-> TRUE,
                  central_calls |-> 0,
                  registered |-> [i \in Ids |-> 0],
                  registered_before |-> {i \in Ids : hist.registered[i] > 0},
                  animating |-> FALSE,
                  press_outside |->
                      IF inp.mouse.pressed
                      THEN ~IsMouseOverArea(
                               AreasSetState(mem1, LayerBackground, BackgroundAreaState(inp)),
                               options.style, inp, Some(ScreenRect(inp)))
                      ELSE inp.mouse.down /\ hist.press_outside,
                  press_claimed |-> ~inp.mouse.pressed /\ inp.mouse.down
                                    /\ hist.press_claimed,
                  resized_after_panels |->
                      /\ inp.screen_size # input.screen_size
                      /\ IsSome(used_by_panels)
                      /\ used_by_panels # Some(RectNothing)]
           /\ claim' = IF inp.mouse.pressed
                       THEN [click |-> None, drag |-> None, refused |-> FALSE]
                       ELSE claim
           /\ strayed' =
                 IF inp.mouse.down \/ inp.mouse.released
                 THEN \/ ~inp.mouse.pressed /\ strayed
                      \/ IsNone(inp.mouse.pos)
                      \/ IsNone(inp.mouse.press_origin)
                      \/ /\ IsSome(inp.mouse.pos)
                         /\ IsSome(inp.mouse.press_origin)
                         /\ Distance(Unwrap(inp.mouse.pos), Unwrap(inp.mouse.press_origin))
                               >= MaxClickDist
                 ELSE FALSE
    /\ animation_manager' = AnimationClockAdvance(animation_manager, raw.dt)
    /\ req_age' = IF req_age = -1 THEN -1 ELSE Min2(req_age + 1, MaxAge)
    /\ style_at_begin' = options.style
    /\ UNCHANGED <<mutex_owner, thread_call,
                   options, repaint_requests, req_inside, flagged, req_calls,
                   installed_style, graphics>>

(***************************************************************************)
(* end_frame                                                               *)
(***************************************************************************)
\* end_frame: whether the output is flagged, from the counter it loads
NeedsRepaintAfterDecrement(c) == c - 1 > 0
NeedsRepaintNever(c) == FALSE
NeedsRepaintAlways(c) == TRUE
NeedsRepaint(c) == c > 0

\* end_frame: the counter after the frame
RepaintKeptAfterEndFrame(c) == c
RepaintAfterEndFrame(c) == IF c > 0 THEN c - 1 ELSE c

\* self.output holds needs_repaint = false whenever end_frame takes it (nothing else
\* writes the field); paint() drains the paint lists, of which the error markup of
\* the debug layer is kept here, and the paint statistics are not modelled.
EndFrame ==
    /\ phase = "inside"
    /\ phase' = "outside"
    /\ LET requested == input.wants_repaint
           loaded == IF requested THEN RepaintStore(repaint_requests) ELSE repaint_requests
           needs == NeedsRepaint(loaded)
       IN  /\ repaint_requests' = RepaintAfterEndFrame(loaded)
           /\ ret' = [op |-> "end_frame", needs_repaint |-> needs]
           /\ req_age' = IF requested THEN 0 ELSE req_age
           /\ req_inside' = IF requested THEN TRUE ELSE req_inside
           /\ flagged' = Min2((IF requested THEN 0 ELSE flagged) + (IF needs THEN 1 ELSE 0),
                              MaxAge)
           /\ req_calls' = IF ~requested THEN req_calls
                           ELSE IF req_age = 0 /\ req_inside
                           THEN Min2(req_calls + 1, MaxAge)
                           ELSE 1
    /\ memory' = MemoryEndFrame(memory)
    /\ graphics' = {}
    /\ UNCHANGED <<mutex_owner, thread_call,
                   input, options, fonts, available_rect, used_by_panels, used_ids,
                   claim, strayed, style_at_begin, installed_style,
                   animation_manager, hist>>

(***************************************************************************)
(* options: style and fonts                                                *)
(***************************************************************************)
SetStyleStaged(opts, s) == opts
SetStyleOptions(opts, s) == [opts EXCEPT !.style = s]

SetStyle(s) ==
    /\ options' = SetStyleOptions(options, s)
    /\ ret' = [op |-> "set_style"]
    /\ installed_style' = s
    /\ UNCHANGED <<mutex_owner, thread_call,
                   phase, input, memory, fonts, available_rect, used_by_panels,
                   used_ids, repaint_requests, claim, strayed, req_age, req_inside,
                   flagged, style_at_begin, req_calls,
                   animation_manager, graphics, hist>>

StyleQuery ==
    /\ ret' = [op |-> "style", style |-> options.style]
    /\ UNCHANGED <<mutex_owner, thread_call,
                   phase, input, memory, options, fonts, available_rect,
                   used_by_panels, used_ids, repaint_requests, claim, strayed,
                   req_age, req_inside, flagged, style_at_begin,
                   installed_style, req_calls,
                   animation_manager, graphics, hist>>

\* set_fonts stages the definitions in the options and leaves the font set alone
FontsAfterSetImmediate(f, fd) == Some(FontsFromDefinitions(fd))
FontsAfterSet(f, fd) == f

SetFonts(fd) ==
    /\ options' = [options EXCEPT !.font_definitions = fd]
    /\ fonts' = FontsAfterSet(fonts, fd)
    /\ ret' = [op |-> "set_fonts"]
    /\ UNCHANGED <<mutex_owner, thread_call,
                   phase, input, memory, available_rect, used_by_panels, used_ids,
                   repaint_requests, claim, strayed, req_age, req_inside, flagged,
                   style_at_begin,
                   installed_style, req_calls,
                   animation_manager, graphics, hist>>

\* fonts() panics before the first begin_frame
FontsQuery ==
    /\ ret' = IF IsSome(fonts)
              THEN [op |-> "fonts", fonts |-> Unwrap(fonts)]
              ELSE [op |-> "panic", call |-> "fonts"]
    /\ UNCHANGED <<mutex_owner, thread_call,
                   phase, input, memory, options, fonts, available_rect,
                   used_by_panels, used_ids, repaint_requests, claim, strayed,
                   req_age, req_inside, flagged, style_at_begin,
                   installed_style, req_calls,
                   animation_manager, graphics, hist>>

(***************************************************************************)
(* Queries that are not valid before the first begin_frame                 *)
(***************************************************************************)
\* Fonts::texture
FontsTexture(f) == [of |-> f.definitions]

\* texture() is fonts().texture()
TextureQuery ==
    /\ ret' = IF IsSome(fonts)
              THEN [op |-> "texture", texture |-> FontsTexture(Unwrap(fonts))]
              ELSE [op |-> "panic", call |-> "texture"]
    /\ UNCHANGED <<mutex_owner, thread_call,
                   phase, input, memory, options, fonts, available_rect,
                   used_by_panels, used_ids, repaint_requests, animation_manager,
                   graphics, claim, strayed, req_age, req_inside, flagged, req_calls,
                   style_at_begin, installed_style, hist>>

\* available_rect() panics before the first begin_frame
AvailableRectQuery ==
    /\ ret' = IF IsSome(available_rect)
              THEN [op |-> "available_rect", rect |-> Unwrap(available_rect)]
              ELSE [op |-> "panic", call |-> "available_rect"]
    /\ UNCHANGED <<mutex_owner, thread_call,
                   phase, input, memory, options, fonts, available_rect,
                   used_by_panels, used_ids, repaint_requests, animation_manager,
                   graphics, claim, strayed, req_age, req_inside, flagged, req_calls,
                   style_at_begin, installed_style, hist>>

(***************************************************************************)
(* Panels                                                                  *)
(***************************************************************************)
RectUnion(a, b) ==
    [min |-> pos2(Min2(a.min.x, b.min.x), Min2(a.min.y, b.min.y)),
     max |-> pos2(Max2(a.max.x, b.max.x), Max2(a.max.y, b.max.y))]
RectWidth(r) == r.max.x - r.min.x
RectHeight(r) == r.max.y - r.min.y
RectSize(r) == vec2(RectWidth(r), RectHeight(r))

\* the rectangles of panels: at the left edge of the screen, away from it, at the top
LeftPanelRects == {RectOf(0, 0, 1, 2), RectOf(1, 0, 3, 2)}
TopPanelRects == {RectOf(0, 0, 2 * MaxCoord, 1)}
PanelRects == LeftPanelRects \cup TopPanelRects

\* register_panel
RegisterPanel(used, panel_rect) ==
    Some(RectUnion(IF IsSome(used) THEN Unwrap(used) ELSE RectNothing, panel_rect))

\* allocate_left_panel: what is left of the available rectangle
RemainderWidthLess(remainder, panel_rect) ==
    [remainder EXCEPT !.min.x = @ + RectWidth(panel_rect)]
RemainderRightOf(remainder, panel_rect) ==
    [remainder EXCEPT !.min.x = panel_rect.max.x]

AllocateLeftPanel(panel_rect) ==
    /\ IF IsSome(available_rect)
       THEN /\ available_rect' =
                   Some(RemainderRightOf(Unwrap(available_rect), panel_rect))
            /\ used_by_panels' = RegisterPanel(used_by_panels, panel_rect)
            /\ ret' = [op |-> "allocate_left_panel", panel_rect |-> panel_rect]
       ELSE /\ ret' = [op |-> "panic", call |-> "allocate_left_panel"]
            /\ UNCHANGED <<mutex_owner, thread_call, available_rect, used_by_panels>>
    /\ UNCHANGED <<mutex_owner, thread_call,
                   phase, input, memory, options, fonts, used_ids, repaint_requests,
                   animation_manager, graphics, claim, strayed, req_age, req_inside,
                   flagged, req_calls, style_at_begin, installed_style, hist>>

\* allocate_top_panel: what is left of the available rectangle
RemainderBelow(remainder, panel_rect) ==
    [remainder EXCEPT !.min.y = panel_rect.max.y]

AllocateTopPanel(panel_rect) ==
    /\ IF IsSome(available_rect)
       THEN /\ available_rect' =
                   Some(RemainderBelow(Unwrap(available_rect), panel_rect))
            /\ used_by_panels' = RegisterPanel(used_by_panels, panel_rect)
            /\ ret' = [op |-> "allocate_top_panel", panel_rect |-> panel_rect]
       ELSE /\ ret' = [op |-> "panic", call |-> "allocate_top_panel"]
            /\ UNCHANGED <<mutex_owner, thread_call, available_rect, used_by_panels>>
    /\ UNCHANGED <<mutex_owner, thread_call,
                   phase, input, memory, options, fonts, used_ids, repaint_requests,
                   animation_manager, graphics, claim, strayed, req_age, req_inside,
                   flagged, req_calls, style_at_begin, installed_style, hist>>

\* allocate_central_panel: the debug assertion (of a build with debug assertions)
AlreadyCreatedCentralPanel(avail) == avail = Some(RectNothing)

\* allocate_central_panel: nothing is left after it
AvailableCleared == None
AvailableAfterCentralPanel == Some(RectNothing)

\* The assertion panics before anything is written.
AllocateCentralPanel(panel_rect) ==
    /\ IF AlreadyCreatedCentralPanel(available_rect)
       THEN /\ ret' = [op |-> "panic", call |-> "allocate_central_panel"]
            /\ UNCHANGED <<mutex_owner, thread_call, available_rect, used_by_panels>>
       ELSE /\ available_rect' = AvailableAfterCentralPanel
            /\ used_by_panels' = RegisterPanel(used_by_panels, panel_rect)
            /\ ret' = [op |-> "allocate_central_panel", panel_rect |-> panel_rect]
    /\ hist' = [hist EXCEPT !.central_calls = Min2(@ + 1, 2)]
    /\ UNCHANGED <<mutex_owner, thread_call,
                   phase, input, memory, options, fonts, used_ids, repaint_requests,
                   animation_manager, graphics, claim, strayed, req_age, req_inside,
                   flagged, req_calls, style_at_begin, installed_style>>

(***************************************************************************)
(* Unique identifiers                                                      *)
(***************************************************************************)
\* two uses of an identifier closer than this are reported as one
ClashDistance == 8
\* where on the screen an identifier is used
IdPositions == {pos2(0, 0), pos2(ClashDistance, 0)}
\* what identifiers are made from: Id::new hashes the source, and two sources may
\* hash to one identifier
IdSources == 0..NumIds
IdNew(source) == (source % NumIds) + 1

\* Painter::error on the debug layer
PainterError(g, p, text) == g \cup {[pos |-> p, text |-> text]}

\* AHashMap::insert: used_ids holds one position per identifier
UsedIdsKept(used, id, p) == used
UsedIdsInsert(used, id, p) == {e \in used : e.id # id} \cup {[id |-> id, pos |-> p]}
UsedIdsGet(used, id) == {e.pos : e \in {u \in used : u.id = id}}

\* register_unique_id: the diagnostics are painted and the identifier is returned
RegisterUniqueId(id, p) ==
    /\ LET clash == UsedIdsGet(used_ids, id)
       IN  /\ used_ids' = UsedIdsInsert(used_ids, id, p)
           /\ IF IsSome(clash)
              THEN LET clash_pos == Unwrap(clash)
                   IN  IF Distance(clash_pos, p) < ClashDistance
                       THEN /\ graphics' = PainterError(graphics, p, "use of non-unique ID")
                            /\ ret' = [op |-> "register_unique_id", given |-> id,
                                       id |-> id, errors |-> 1]
                       ELSE /\ graphics' =
                                   PainterError(
                                       PainterError(graphics, clash_pos,
                                                    "first use of non-unique ID"),
                                       p, "second use of non-unique ID")
                            /\ ret' = [op |-> "register_unique_id", given |-> id,
                                       id |-> id, errors |-> 2]
              ELSE /\ graphics' = graphics
                   /\ ret' = [op |-> "register_unique_id", given |-> id, id |-> id,
                              errors |-> 0]
    /\ hist' = [hist EXCEPT !.registered[id] = Min2(@ + 1, 2)]
    /\ UNCHANGED <<mutex_owner, thread_call,
                   phase, input, memory, options, fonts, available_rect,
                   used_by_panels, repaint_requests, animation_manager, claim, strayed,
                   req_age, req_inside, flagged, req_calls, style_at_begin,
                   installed_style>>

\* make_unique_id
MakeUniqueId(source, p) == RegisterUniqueId(IdNew(source), p)

(***************************************************************************)
(* constrain_window_rect                                                   *)
(***************************************************************************)
\* f32::round: to the nearest integer, halves away from zero
RoundDiv(n, d) ==
    IF n >= 0 THEN (2 * n + d) \div (2 * d) ELSE -((2 * (-n) + d) \div (2 * d))

\* round_to_pixel: a coordinate of point / 2 is point * pixels_per_point / 2 pixels
RoundToPixelNot(point, pixels_per_point) == point
RoundToPixel(point, pixels_per_point) ==
    (2 * RoundDiv(point * pixels_per_point, 2)) \div pixels_per_point

\* round_pos_to_pixels
RoundPosToPixels(p, pixels_per_point) ==
    pos2(RoundToPixel(p.x, pixels_per_point), RoundToPixel(p.y, pixels_per_point))

\* constrain_window_rect: the margin by which a window too large to fit may overflow
OverflowMargin(window_extent, screen_extent) == Max2(window_extent - screen_extent, 0)

\* constrain_window_rect: the position before it is rounded to pixels
ConstrainedPos(screen, window) ==
    LET margin_x == OverflowMargin(RectWidth(window), RectWidth(screen))
        margin_y == OverflowMargin(RectHeight(window), RectHeight(screen))
        x1 == Max2(window.min.x, screen.min.x - margin_x)
        x2 == Min2(x1, screen.max.x + margin_x - RectWidth(window))
        y1 == Max2(window.min.y, screen.min.y - margin_y)
        y2 == Min2(y1, screen.max.y + margin_y - RectHeight(window))
    IN  pos2(x2, y2)

\* constrain_window_rect: the size of the rectangle returned
ConstrainedSizeShrunk(screen, window) ==
    vec2(Min2(RectWidth(window), Max2(RectWidth(screen), 0)),
         Min2(RectHeight(window), Max2(RectHeight(screen), 0)))
ConstrainedSize(screen, window) == RectSize(window)

ConstrainWindowRectResult(screen, window, pixels_per_point) ==
    RectFromMinSize(RoundPosToPixels(ConstrainedPos(screen, window), pixels_per_point),
                    ConstrainedSize(screen, window))

\* the window rectangles: inside and outside the screen, smaller and larger than it
WindowRects ==
    {RectFromMinSize(pos2(x, 0), vec2(w, h)) :
        x \in {-1, 1, 2 * MaxCoord}, w \in {1, 3, 2 * MaxCoord + 1}, h \in {1, 3}}

ConstrainWindowRect(window) ==
    /\ ret' = IF IsSome(available_rect)
              THEN [op |-> "constrain_window_rect", window |-> window,
                    rect |-> ConstrainWindowRectResult(Unwrap(available_rect), window,
                                                       input.pixels_per_point)]
              ELSE [op |-> "panic", call |-> "constrain_window_rect"]
    /\ UNCHANGED <<mutex_owner, thread_call,
                   phase, input, memory, options, fonts, available_rect,
                   used_by_panels, used_ids, repaint_requests, animation_manager,
                   graphics, claim, strayed, req_age, req_inside, flagged, req_calls,
                   style_at_begin, installed_style, hist>>

(***************************************************************************)
(* animate_bool                                                            *)
(***************************************************************************)
\* animate_bool: animation_in_progress
AnimationInProgressOrDone(animated_value) == 0 < animated_value
AnimationInProgress(animated_value) == 0 < animated_value /\ animated_value < ProgressOne

AnimateBool(id, value) ==
    /\ LET res == AnimateBoolResult(animation_manager, options.style.animation_time,
                                    id, value)
           animation_in_progress == AnimationInProgress(res.value)
       IN  /\ animation_manager' = res.manager
           /\ ret' = [op |-> "animate_bool", value |-> res.value]
           /\ hist' = [hist EXCEPT !.animating = @ \/ (0 < res.value
                                                       /\ res.value < ProgressOne)]
           /\ IF animation_in_progress
              THEN \* request_repaint()
                   /\ repaint_requests' = RepaintStore(repaint_requests)
                   /\ req_age' = 0
                   /\ req_inside' = (phase = "inside")
                   /\ flagged' = 0
                   /\ req_calls' = IF req_age = 0 /\ req_inside = (phase = "inside")
                                   THEN Min2(req_calls + 1, MaxAge)
                                   ELSE 1
              ELSE UNCHANGED <<mutex_owner, thread_call,
                               repaint_requests, req_age, req_inside, flagged, req_calls>>
    /\ UNCHANGED <<mutex_owner, thread_call,
                   phase, input, memory, options, fonts, available_rect,
                   used_by_panels, used_ids, graphics, claim, strayed, style_at_begin,
                   installed_style>>

(***************************************************************************)
(* The scene: one floating window over the background, and the rectangles  *)
(* widgets are laid out in                                                 *)
(***************************************************************************)
WindowAreaState == [pos |-> pos2(3, 0), size |-> vec2(1, 2), interactable |-> TRUE]
FullClip == RectFromMinSize(pos2(0, 0), ScreenSize)
\* where a widget is put: its layer, its clip rectangle and its rectangle
Places ==
    {[layer_id |-> LayerBackground, clip_rect |-> FullClip, rect |-> RectOf(0, 0, 1, 2)],
     [layer_id |-> LayerWindow, clip_rect |-> FullClip, rect |-> RectOf(3, 0, 4, 2)],
     [layer_id |-> LayerWindow, clip_rect |-> RectOf(3, 0, 3, 2), rect |-> RectOf(4, 0, 4, 2)]}
OptionalIds == {None} \cup {Some(i) : i \in Ids}

\* Area::show registers the window's area in the memory
ShowWindow ==
    /\ phase = "inside"
    /\ memory' = AreasSetState(memory, LayerWindow, WindowAreaState)
    /\ ret' = [op |-> "show_window"]
    /\ UNCHANGED <<mutex_owner, thread_call,
                   phase, input, options, fonts, available_rect, used_by_panels,
                   used_ids, repaint_requests, claim, strayed, req_age, req_inside,
                   flagged, style_at_begin,
                   installed_style, req_calls,
                   animation_manager, graphics, hist>>

\* The window's own press handling: on a press over the window it takes the drag
\* slot as a "window move" placeholder, unless another identifier owns the slot
WindowInteraction ==
    /\ phase = "inside"
    /\ input.mouse.pressed
    /\ IsSome(input.mouse.pos)
    /\ LayerIdAt(memory, options.style, Unwrap(input.mouse.pos)) = Some(LayerWindow)
    /\ memory.interaction.drag_id \in {None, Some(WindowId)}
    /\ IsNone(memory.window_interaction)
    /\ memory' = [memory EXCEPT !.interaction.drag_id = Some(WindowId),
                                !.interaction.drag_is_window = TRUE,
                                !.window_interaction = Some("move")]
    /\ ret' = [op |-> "window_interaction"]
    /\ hist' = [hist EXCEPT !.press_claimed = TRUE]
    /\ UNCHANGED <<mutex_owner, thread_call,
                   phase, input, options, fonts, available_rect, used_by_panels,
                   used_ids, repaint_requests, claim, strayed, req_age, req_inside,
                   flagged, req_calls, style_at_begin, installed_style,
                   animation_manager, graphics>>

(***************************************************************************)
(* interact                                                                *)
(***************************************************************************)
\* interact: the call is not interested in input
NotInterestedWithoutId(interaction_id, sense) == IsNone(interaction_id)
NotInterested(interaction_id, sense) == IsNone(interaction_id) \/ sense = SenseNothing

\* interact: hovered, while the pointer is held down
HoveredWhileDownPlain(hovered, active) == hovered
HoveredWhileDown(hovered, active) == hovered /\ active

\* interact: active
ActiveDragOnly(it, id) == it.drag_id = Some(id)
ActiveClickOnly(it, id) == it.click_id = Some(id)
Active(it, id) == it.click_id = Some(id) \/ it.drag_id = Some(id)

\* interact: the start of a click
ClaimsClickAlways(sense, it) == sense.click
ClaimsClick(sense, it) == sense.click /\ IsNone(it.click_id)

\* interact: a press hits the widget
PressHitsAlways(hovered) == TRUE
PressHits(hovered) == hovered

\* interact: the start of a drag
ClaimsDragIfFree(sense, it) == sense.drag /\ IsNone(it.drag_id)
ClaimsDrag(sense, it) == sense.drag /\ (IsNone(it.drag_id) \/ it.drag_is_window)

\* interact: clicked, in a frame where the pointer was released
ClickedIgnoringMove(hovered, active, mouse) == hovered /\ active
Clicked(hovered, active, mouse) == hovered /\ active /\ mouse.could_be_click

\* interact: double_clicked, in a frame where the pointer was released
DoubleClickedFromInput(clicked, mouse) == mouse.double_click
DoubleClicked(clicked, mouse) == clicked /\ mouse.double_click

\* interact: the Response returned (its sense and rect fields repeat the arguments
\* and are kept with the call) and the memory left behind
InteractResult(mem, style, inp, layer_id, clip_rect, rect, interaction_id, sense) ==
    LET interact_rect == RectExpand2(rect, HalfVec(style.item_spacing))
        hovered == ContainsMouse(mem, style, inp, layer_id, clip_rect, interact_rect)
        has_kb_focus == IF IsSome(interaction_id)
                        THEN mem.interaction.kb_focus_id = interaction_id
                        ELSE FALSE
        Response(h, c, d, a) ==
            [hovered |-> h, clicked |-> c, double_clicked |-> d, active |-> a,
             has_kb_focus |-> has_kb_focus]
    IN  IF NotInterested(interaction_id, sense)
        THEN [response |-> Response(hovered, FALSE, FALSE, FALSE), memory |-> mem,
              claimed_click |-> FALSE, claimed_drag |-> FALSE]
        ELSE
        LET id == Unwrap(interaction_id)
            it0 == [mem.interaction EXCEPT
                       !.click_interest = @ \/ (hovered /\ sense.click),
                       !.drag_interest = @ \/ (hovered /\ sense.drag)]
            mem0 == [mem EXCEPT !.interaction = it0]
            active == Active(it0, id)
        IN  IF inp.mouse.pressed
            THEN IF PressHits(hovered)
                 THEN LET click == ClaimsClick(sense, it0)
                          it1 == IF click THEN [it0 EXCEPT !.click_id = Some(id)] ELSE it0
                          drag == ClaimsDrag(sense, it1)
                          it2 == IF drag
                                 THEN [it1 EXCEPT !.drag_id = Some(id),
                                                  !.drag_is_window = FALSE]
                                 ELSE it1
                          mem2 == [mem0 EXCEPT
                                      !.interaction = it2,
                                      !.window_interaction = IF drag THEN None ELSE @]
                      IN  [response |-> Response(TRUE, FALSE, FALSE, click \/ drag),
                           memory |-> mem2,
                           claimed_click |-> click, claimed_drag |-> drag]
                 ELSE [response |-> Response(hovered, FALSE, FALSE, FALSE),
                       memory |-> mem0,
                       claimed_click |-> FALSE, claimed_drag |-> FALSE]
            ELSE IF inp.mouse.released
            THEN LET clicked == Clicked(hovered, active, inp.mouse)
                 IN  [response |-> Response(hovered, clicked,
                                            DoubleClicked(clicked, inp.mouse), active),
                      memory |-> mem0,
                      claimed_click |-> FALSE, claimed_drag |-> FALSE]
            ELSE IF inp.mouse.down
            THEN [response |-> Response(HoveredWhileDown(hovered, active), FALSE, FALSE,
                                        active),
                  memory |-> mem0,
                  claimed_click |-> FALSE, claimed_drag |-> FALSE]
            ELSE [response |-> Response(hovered, FALSE, FALSE, active),
                  memory |-> mem0,
                  claimed_click |-> FALSE, claimed_drag |-> FALSE]

Interact(layer_id, clip_rect, rect, interaction_id, sense) ==
    /\ phase = "inside"
    /\ LET res == InteractResult(memory, options.style, input, layer_id, clip_rect,
                                 rect, interaction_id, sense)
       IN  /\ memory' = res.memory
           /\ ret' = [op |-> "interact", response |-> res.response]
           /\ claim' = [click |-> IF res.claimed_click /\ IsNone(claim.click)
                                  THEN interaction_id ELSE claim.click,
                        drag |-> IF res.claimed_drag /\ IsNone(claim.drag)
                                 THEN interaction_id ELSE claim.drag,
                        refused |->
                            \/ claim.refused
                            \/ /\ input.mouse.pressed
                               /\ res.response.hovered
                               /\ IsSome(interaction_id)
                               /\ \/ /\ sense.click /\ ~res.claimed_click
                                     /\ IsSome(claim.click) /\ claim.click # interaction_id
                                  \/ /\ sense.drag /\ ~res.claimed_drag
                                     /\ IsSome(claim.drag) /\ claim.drag # interaction_id]
           /\ hist' = [hist EXCEPT !.press_claimed =
                                       @ \/ res.claimed_click \/ res.claimed_drag]
    /\ UNCHANGED <<mutex_owner, thread_call,
                   phase, input, options, fonts, available_rect, used_by_panels,
                   used_ids, repaint_requests, strayed, req_age, req_inside, flagged,
                   style_at_begin,
                   installed_style, req_calls,
                   animation_manager, graphics>>

\* wants_mouse_input()
WantsMouseInputQuery ==
    /\ ret' = [op |-> "wants_mouse_input",
               value |-> WantsMouseInput(memory, options.style, input, available_rect)]
    /\ UNCHANGED <<mutex_owner, thread_call,
                   phase, input, memory, options, fonts, available_rect,
                   used_by_panels, used_ids, repaint_requests, animation_manager,
                   graphics, claim, strayed, req_age, req_inside, flagged, req_calls,
                   style_at_begin, installed_style, hist>>

(***************************************************************************)
(* Specifications                                                          *)
(***************************************************************************)
InteractCall ==
    \E place \in Places, interaction_id \in OptionalIds, sense \in Senses :
        Interact(place.layer_id, place.clip_rect, place.rect, interaction_id, sense)

BeginPointerFrame == \E raw \in RawMouseInputs : BeginFrame(raw)
BeginPlainFrame == \E raw \in RawFrameInputs : BeginFrame(raw)
SetStyleCall == \E s \in Styles : SetStyle(s)
SetFontsCall == \E fd \in FontDefinitionsSet : SetFonts(fd)

\* the interaction resolver over frames of pointer input
NextInteract ==
    \/ BeginPointerFrame
    \/ ShowWindow
    \/ WindowInteraction
    \/ InteractCall
    \/ WantsMouseInputQuery
    \/ EndFrame

\* the frame controller: repaint requests and staged options
NextFrame ==
    \/ BeginPlainFrame
    \/ RequestRepaint
    \/ SetStyleCall
    \/ StyleQuery
    \/ SetFontsCall
    \/ FontsQuery
    \/ EndFrame

\* the panels of a frame are laid out between its begin_frame and its end_frame
AllocateLeftPanelCall ==
    /\ phase = "inside"
    /\ \E panel_rect \in PanelRects : AllocateLeftPanel(panel_rect)
AllocateTopPanelCall ==
    /\ phase = "inside"
    /\ \E panel_rect \in PanelRects : AllocateTopPanel(panel_rect)
AllocateCentralPanelCall ==
    /\ phase = "inside"
    /\ \E panel_rect \in PanelRects : AllocateCentralPanel(panel_rect)
RegisterUniqueIdCall == \E id \in Ids, p \in IdPositions : RegisterUniqueId(id, p)
MakeUniqueIdCall == \E source \in IdSources, p \in IdPositions : MakeUniqueId(source, p)
ConstrainWindowRectCall == \E window \in WindowRects : ConstrainWindowRect(window)
BeginIdleFrame == \E raw \in RawIdleInputs : BeginFrame(raw)
BeginTimedFrame == \E raw \in RawTimedInputs : BeginFrame(raw)
AnimateBoolCall == \E id \in Ids, value \in BOOLEAN : AnimateBool(id, value)

\* the layout: panels, the queries on what they leave, and window placement
NextLayout ==
    \/ BeginPlainFrame
    \/ AllocateLeftPanelCall
    \/ AllocateTopPanelCall
    \/ AllocateCentralPanelCall
    \/ AvailableRectQuery
    \/ FontsQuery
    \/ TextureQuery
    \/ ConstrainWindowRectCall
    \/ EndFrame

\* the identifiers registered in a frame
NextIds ==
    \/ BeginIdleFrame
    \/ RegisterUniqueIdCall
    \/ MakeUniqueIdCall
    \/ EndFrame

\* animations over frames of one or two units of time
NextAnimate ==
    \/ BeginTimedFrame
    \/ AnimateBoolCall
    \/ EndFrame

(***************************************************************************)
(* The mutexes of the Context                                              *)
(*                                                                         *)
(* Each call is the sequence of lock and unlock steps it makes, in the     *)
(* order of the code; a guard bound to a name or living in the scrutinee   *)
(* of an if-let is held until the end of its scope, a temporary guard      *)
(* until the end of its statement.  The mutex does not admit its owner a   *)
(* second time.                                                            *)
(***************************************************************************)
Lock(m) == [do |-> "lock", mutex |-> m]
Unlock(m) == [do |-> "unlock", mutex |-> m]
\* a guard dropped at the end of the statement that took it
Temporary(m) == <<Lock(m), Unlock(m)>>

StyleLocks == Temporary("options")
InputLocks == << >>
RequestRepaintLocks == << >>
AvailableRectLocks == Temporary("available_rect")
LayerIdAtLocks == StyleLocks \o Temporary("memory")
ContainsMouseLocks == LayerIdAtLocks
\* interact up to the early return: style, contains_mouse, has_kb_focus
InteractHoverLocks == StyleLocks \o ContainsMouseLocks \o Temporary("memory")
InteractLocksReentrant ==
    StyleLocks \o ContainsMouseLocks \o <<Lock("memory")>> \o Temporary("memory")
        \o <<Unlock("memory")>>
\* interact: let mut memory = self.memory() is held to the end of the call
InteractLocks == InteractHoverLocks \o <<Lock("memory"), Unlock("memory")>>
RegisterPanelLocks == Temporary("used_by_panels")
AllocateLeftPanelLocks ==
    AvailableRectLocks \o Temporary("available_rect") \o RegisterPanelLocks
AllocateTopPanelLocks ==
    AvailableRectLocks \o Temporary("available_rect") \o RegisterPanelLocks
AllocateCentralPanelLocks ==
    <<Lock("available_rect")>> \o RegisterPanelLocks \o <<Unlock("available_rect")>>
UsedRectLocks == Temporary("used_by_panels") \o Temporary("memory")
\* Painter::error adds its shapes to the paint list of the debug layer
PainterErrorLocks == Temporary("graphics")
RegisterUniqueIdLocks == Temporary("used_ids")
\* on a clash the guard of used_ids lives through the body of the if-let
RegisterUniqueIdClashLocks ==
    <<Lock("used_ids")>> \o PainterErrorLocks \o PainterErrorLocks
        \o <<Unlock("used_ids")>>
DrainPaintListsLocks ==
    <<Lock("memory"), Lock("graphics"), Unlock("graphics"), Unlock("memory")>>
PaintLocks == Temporary("options") \o DrainPaintListsLocks \o Temporary("paint_stats")
EndFrameLocks ==
    RequestRepaintLocks \o Temporary("memory") \o Temporary("output") \o PaintLocks

CallLocks ==
    [style |-> StyleLocks,
     input |-> InputLocks,
     request_repaint |-> RequestRepaintLocks,
     interact_hover |-> InteractHoverLocks,
     interact |-> InteractLocks,
     register_unique_id |-> RegisterUniqueIdLocks,
     register_unique_id_clash |-> RegisterUniqueIdClashLocks,
     allocate_left_panel |-> AllocateLeftPanelLocks,
     allocate_top_panel |-> AllocateTopPanelLocks,
     allocate_central_panel |-> AllocateCentralPanelLocks,
     used_rect |-> UsedRectLocks,
     end_frame |-> EndFrameLocks]
Calls == DOMAIN CallLocks

\* between two calls a thread keeps the name of the call it has returned from
Busy(t) == thread_call[t].at > 0
AtEnd(t) == Busy(t) /\ thread_call[t].at > Len(CallLocks[thread_call[t].call])
NextStep(t) == CallLocks[thread_call[t].call][thread_call[t].at]

data_vars == <<phase, input, memory, options, fonts, available_rect, used_by_panels,
               used_ids, repaint_requests, animation_manager, graphics, ret, claim,
               strayed, req_age, req_inside, flagged, req_calls, style_at_begin,
               installed_style, hist>>

\* a thread enters a call
CallBegin(t, call) ==
    /\ ~Busy(t)
    /\ thread_call' = [thread_call EXCEPT ![t] = [call |-> call, at |-> 1]]
    /\ UNCHANGED <<mutex_owner, data_vars>>

\* Mutex::lock returns once the mutex is free
LockStep(t) ==
    /\ Busy(t)
    /\ ~AtEnd(t)
    /\ NextStep(t).do = "lock"
    /\ mutex_owner[NextStep(t).mutex] = NoThread
    /\ mutex_owner' = [mutex_owner EXCEPT ![NextStep(t).mutex] = t]
    /\ thread_call' = [thread_call EXCEPT ![t].at = @ + 1]
    /\ UNCHANGED data_vars

\* the guard is dropped
UnlockStep(t) ==
    /\ Busy(t)
    /\ ~AtEnd(t)
    /\ NextStep(t).do = "unlock"
    /\ mutex_owner' = [mutex_owner EXCEPT ![NextStep(t).mutex] = NoThread]
    /\ thread_call' = [thread_call EXCEPT ![t].at = @ + 1]
    /\ UNCHANGED data_vars

\* the call returns
CallReturn(t) ==
    /\ AtEnd(t)
    /\ thread_call' = [thread_call EXCEPT ![t].at = 0]
    /\ UNCHANGED <<mutex_owner, data_vars>>

CallBeginAny == \E t \in Threads, call \in Calls : CallBegin(t, call)
LockStepAny == \E t \in Threads : LockStep(t)
UnlockStepAny == \E t \in Threads : UnlockStep(t)
CallReturnAny == \E t \in Threads : CallReturn(t)

\* concurrent calls on one Context
NextLocks ==
    \/ CallBeginAny
    \/ LockStepAny
    \/ UnlockStepAny
    \/ CallReturnAny

(***************************************************************************)
(* end_frame step by step, for request_repaint calls of other threads      *)
(*                                                                         *)
(* phase follows the frame's thread through end_frame: "end_load" before   *)
(* the load of the counter, "end_sub" between a positive load and the      *)
(* fetch_sub, "end_true" and "end_false" while the frame is painted, before*)
(* the output is returned.                                                 *)
(***************************************************************************)
\* the largest value of the AtomicU32 (u32::MAX is 4294967295: the model keeps the
\* largest integer of the model checker in its place)
U32Max == 2147483647
\* AtomicU32::fetch_sub wraps around
FetchSub(c) == IF c = 0 THEN U32Max ELSE c - 1

\* if self.input.wants_repaint() { self.request_repaint(); } self.memory().end_frame();
EndFrameWants ==
    /\ phase = "inside"
    /\ phase' = "end_load"
    /\ LET requested == input.wants_repaint
       IN  /\ repaint_requests' = IF requested THEN RepaintStore(repaint_requests)
                                  ELSE repaint_requests
           /\ req_age' = IF requested THEN 0 ELSE req_age
           /\ req_inside' = IF requested THEN TRUE ELSE req_inside
           /\ flagged' = IF requested THEN 0 ELSE flagged
           /\ req_calls' = IF ~requested THEN req_calls
                           ELSE IF req_age = 0 /\ req_inside
                           THEN Min2(req_calls + 1, MaxAge)
                           ELSE 1
    /\ memory' = MemoryEndFrame(memory)
    /\ UNCHANGED <<mutex_owner, thread_call,
                   input, options, fonts, available_rect, used_by_panels, used_ids,
                   claim, strayed, style_at_begin, installed_style,
                   animation_manager, graphics, ret, hist>>

\* if self.repaint_requests.load(SeqCst) > 0
EndFrameLoad ==
    /\ phase = "end_load"
    /\ phase' = IF NeedsRepaint(repaint_requests) THEN "end_sub" ELSE "end_false"
    /\ UNCHANGED <<mutex_owner, thread_call,
                   input, memory, options, fonts, available_rect, used_by_panels,
                   used_ids, repaint_requests, claim, strayed, req_age, req_inside,
                   flagged, req_calls, style_at_begin, installed_style,
                   animation_manager, graphics, ret, hist>>

\* self.repaint_requests.fetch_sub(1, SeqCst); output.needs_repaint = true;
EndFrameSub ==
    /\ phase = "end_sub"
    /\ phase' = "end_true"
    /\ repaint_requests' = FetchSub(repaint_requests)
    /\ UNCHANGED <<mutex_owner, thread_call,
                   input, memory, options, fonts, available_rect, used_by_panels,
                   used_ids, claim, strayed, req_age, req_inside,
                   flagged, req_calls, style_at_begin, installed_style,
                   animation_manager, graphics, ret, hist>>

\* let paint_jobs = self.paint(); (output, paint_jobs)
EndFrameReturn ==
    /\ phase \in {"end_true", "end_false"}
    /\ phase' = "outside"
    /\ ret' = [op |-> "end_frame", needs_repaint |-> (phase = "end_true")]
    /\ flagged' = Min2(flagged + (IF phase = "end_true" THEN 1 ELSE 0), MaxAge)
    /\ graphics' = {}
    /\ UNCHANGED <<mutex_owner, thread_call,
                   input, memory, options, fonts, available_rect, used_by_panels,
                   used_ids, repaint_requests, claim, strayed, req_age, req_inside,
                   req_calls, style_at_begin, installed_style,
                   animation_manager, hist>>

\* one thread runs the frames while others call request_repaint
NextRace ==
    \/ BeginPlainFrame
    \/ RequestRepaint
    \/ EndFrameWants
    \/ EndFrameLoad
    \/ EndFrameSub
    \/ EndFrameReturn

\* panels over frames whose screen changes size
BeginResizedFrame == \E raw \in RawResizedInputs : BeginFrame(raw)
NextScreens ==
    \/ BeginResizedFrame
    \/ AllocateLeftPanelCall
    \/ AllocateTopPanelCall
    \/ AllocateCentralPanelCall
    \/ AvailableRectQuery
    \/ EndFrame

\* every call, over every kind of frame
Next ==
    \/ NextInteract
    \/ NextFrame
    \/ NextLayout
    \/ NextIds
    \/ NextAnimate
    \/ NextScreens
    \/ NextRace
    \/ NextLocks

SpecInteract == Init /\ [][NextInteract]_vars
SpecFrame == Init /\ [][NextFrame]_vars
SpecLayout == Init /\ [][NextLayout]_vars
SpecIds == Init /\ [][NextIds]_vars
SpecAnimate == Init /\ [][NextAnimate]_vars
SpecScreens == Init /\ [][NextScreens]_vars
SpecRace == Init /\ [][NextRace]_vars
SpecLocks == Init /\ [][NextLocks]_vars
\* the integration runs frame after frame: a frame that has begun is ended, and
\* another one is begun
SpecFrameFair == SpecFrame /\ WF_vars(BeginPlainFrame) /\ WF_vars(EndFrame)
Spec == Init /\ [][Next]_vars

(***************************************************************************)
(* Properties of the interaction resolver, under SpecInteract              *)
(***************************************************************************)
\* the result of the call interact(place, interaction_id, sense) in the current state
CallResult(place, interaction_id, sense) ==
    InteractResult(memory, options.style, input, place.layer_id, place.clip_rect,
                   place.rect, interaction_id, sense)

\* C1: in a frame where the pointer is pressed, once an interact call has claimed
\* click (drag) ownership, the click (drag) owner stays that first claimant whatever
\* interact calls follow in the frame: a later claimant is refused the slot.
C1_FirstClaimantKeepsSlot ==
    input.mouse.pressed =>
        /\ IsSome(claim.click) => memory.interaction.click_id = claim.click
        /\ IsSome(claim.drag) => /\ memory.interaction.drag_id = claim.drag
                                 /\ ~memory.interaction.drag_is_window

\* C1 witness: both slots were claimed by interact calls and a hovered claimant with
\* another identifier was refused afterwards.
C1_Witness ==
    /\ input.mouse.pressed
    /\ IsSome(claim.click)
    /\ IsSome(claim.drag)
    /\ claim.refused
    /\ ret.op = "interact"
    /\ ret.response.hovered
    /\ ~ret.response.active

\* C2: the widget that claimed click in the press frame is reported clicked by every
\* interact call made for it with a click sense in the frame where the pointer is
\* released, if it is hovered there and the input's could-be-click flag is set.
C2_ClickOnRelease ==
    (/\ phase = "inside"
     /\ input.mouse.released
     /\ input.mouse.could_be_click
     /\ IsSome(claim.click)) =>
        \A place \in Places, sense \in Senses :
            LET res == CallResult(place, claim.click, sense)
            IN  (sense.click /\ res.response.hovered) => res.response.clicked

\* C2 witness: an interact call returned clicked in a release frame while the click
\* owner was the press frame's claimant.
C2_Witness ==
    /\ ret.op = "interact"
    /\ input.mouse.released
    /\ IsSome(claim.click)
    /\ memory.interaction.click_id = claim.click
    /\ ret.response.clicked

\* C3: interact returns clicked only in a frame where the pointer was released, and
\* only if the widget is hovered, its identifier owns click or drag and the
\* could-be-click flag is set; a press followed by a move beyond the click
\* threshold and a release never yields clicked.
C3_ClickedOnlyOnRelease ==
    /\ (ret.op = "interact" /\ ret.response.clicked) =>
           /\ input.mouse.released
           /\ ~input.mouse.pressed
           /\ ret.response.hovered
           /\ ret.response.active
           /\ input.mouse.could_be_click
           /\ ~strayed
    /\ phase = "inside" =>
           \A place \in Places, id \in Ids, sense \in Senses :
               LET res == CallResult(place, Some(id), sense)
               IN  res.response.clicked =>
                       /\ input.mouse.released
                       /\ input.mouse.could_be_click
                       /\ ContainsMouse(memory, options.style, input, place.layer_id,
                                        place.clip_rect,
                                        RectExpand2(place.rect,
                                                    HalfVec(options.style.item_spacing)))
                       /\ \/ memory.interaction.click_id = Some(id)
                          \/ memory.interaction.drag_id = Some(id)

\* C3 witness: the pointer was pressed, moved beyond the click threshold and released
\* over the hovered owner, and the call returned clicked = false.
C3_Witness ==
    /\ ret.op = "interact"
    /\ input.mouse.released
    /\ strayed
    /\ ret.response.hovered
    /\ ret.response.active
    /\ ~ret.response.clicked

\* C4: in every Response returned by interact, double_clicked implies clicked.
C4_DoubleClickedImpliesClicked ==
    ret.op = "interact" => (ret.response.double_clicked => ret.response.clicked)

\* C4 witness: an interact call returned double_clicked.
C4_Witness ==
    /\ ret.op = "interact"
    /\ ret.response.double_clicked

\* C18: while the pointer is held down since a press made over no area in whose
\* frame nothing claimed click or drag, wants_mouse_input() is false, wherever the
\* pointer has moved since (over a window too).
C18_DragFromOutsideNotWanted ==
    /\ (input.mouse.down /\ hist.press_outside /\ ~hist.press_claimed) =>
           ~WantsMouseInput(memory, options.style, input, available_rect)
    /\ (ret.op = "wants_mouse_input" /\ input.mouse.down /\ hist.press_outside
        /\ ~hist.press_claimed) => ~ret.value

\* C18 witness: in a later frame of such a drag the pointer is over the window, and
\* wants_mouse_input() returned false.
C18_Witness ==
    /\ ret.op = "wants_mouse_input"
    /\ ~ret.value
    /\ input.mouse.down
    /\ ~input.mouse.pressed
    /\ hist.press_outside
    /\ ~hist.press_claimed
    /\ IsMouseOverArea(memory, options.style, input, available_rect)

\* C19: an interact call with no identifier, or with sense nothing, leaves the memory
\* (click owner, drag owner, interest flags, window-move placeholder) as it is and
\* returns clicked = double_clicked = active = false.
C19_NoIdNoSideEffects ==
    phase = "inside" =>
        \A place \in Places, interaction_id \in OptionalIds, sense \in Senses :
            (IsNone(interaction_id) \/ sense = SenseNothing) =>
                LET res == CallResult(place, interaction_id, sense)
                IN  /\ res.memory = memory
                    /\ ~res.response.clicked
                    /\ ~res.response.double_clicked
                    /\ ~res.response.active

\* C19 witness: the pointer is released over a region whose identifier owns click,
\* and the call for it with sense nothing reports hovered and nothing else, where
\* the call with a click sense reports clicked.
C19_Witness ==
    /\ phase = "inside"
    /\ input.mouse.released
    /\ \E place \in Places, id \in Ids :
           /\ memory.interaction.click_id = Some(id)
           /\ CallResult(place, Some(id), SenseNothing).response.hovered
           /\ ~CallResult(place, Some(id), SenseNothing).response.active
           /\ CallResult(place, Some(id), [click |-> TRUE, drag |-> FALSE]).response.clicked
    /\ ret.op = "interact"
    /\ ret.response.hovered
    /\ ~ret.response.active

\* C20 as stated: while the pointer is held down with no transition, every interact
\* call for a region that does not own click or drag returns hovered = false.
C20_OnlyOwnerHovered ==
    (phase = "inside" /\ input.mouse.down /\ ~input.mouse.pressed
     /\ ~input.mouse.released) =>
        \A place \in Places, interaction_id \in OptionalIds, sense \in Senses :
            LET res == CallResult(place, interaction_id, sense)
                owner == /\ IsSome(interaction_id)
                         /\ \/ memory.interaction.click_id = interaction_id
                            \/ memory.interaction.drag_id = interaction_id
            IN  ~owner => ~res.response.hovered

\* C20 as amended: while the pointer is held down with no transition, an interact
\* call made with an identifier and a sense other than nothing returns hovered only
\* if the identifier owns click or drag; a call with no identifier or with sense
\* nothing returns the plain hover test, owner or not.
C20_OnlyOwnerHoveredAmongSensing ==
    (phase = "inside" /\ input.mouse.down /\ ~input.mouse.pressed
     /\ ~input.mouse.released) =>
        \A place \in Places, interaction_id \in OptionalIds, sense \in Senses :
            LET res == CallResult(place, interaction_id, sense)
                inside == ContainsMouse(memory, options.style, input, place.layer_id,
                                        place.clip_rect,
                                        RectExpand2(place.rect,
                                                    HalfVec(options.style.item_spacing)))
            IN  IF IsSome(interaction_id) /\ sense # SenseNothing
                THEN res.response.hovered <=>
                         /\ inside
                         /\ \/ memory.interaction.click_id = interaction_id
                            \/ memory.interaction.drag_id = interaction_id
                ELSE res.response.hovered <=> inside

\* C20 witness: the pointer is held down over a region while another identifier owns
\* the drag: the call with an identifier and a sense returns hovered = false, the
\* call without an identifier returns hovered = true.
C20_Witness ==
    /\ phase = "inside"
    /\ input.mouse.down
    /\ ~input.mouse.pressed
    /\ ~input.mouse.released
    /\ \E place \in Places, id \in Ids :
           /\ IsSome(memory.interaction.drag_id)
           /\ memory.interaction.drag_id # Some(id)
           /\ memory.interaction.click_id # Some(id)
           /\ ~CallResult(place, Some(id), [click |-> TRUE, drag |-> TRUE]).response.hovered
           /\ CallResult(place, None, SenseNothing).response.hovered
    /\ ret.op = "interact"
    /\ ret.response.hovered
    /\ ~ret.response.active

\* C21: ownership is released on pointer-up: the begin_frame that follows a frame in
\* which the pointer was released leaves no owner of click or drag, and in a frame
\* whose pointer is up and was not just released nothing owns click or drag.
C21_OwnershipReleasedOnPointerUp ==
    /\ []((~input.mouse.down /\ ~input.mouse.released) =>
              /\ IsNone(memory.interaction.click_id)
              /\ IsNone(memory.interaction.drag_id))
    /\ [][(phase = "outside" /\ phase' = "inside" /\ input.mouse.released) =>
              /\ IsNone(memory'.interaction.click_id)
              /\ IsNone(memory'.interaction.drag_id)]_vars

\* C21 witness: click and drag were claimed on a press, and the frame after the
\* release begins with no owner, before any widget is resolved.
C21_Witness ==
    /\ ret.op = "begin_frame"
    /\ ~input.mouse.down
    /\ ~input.mouse.released
    /\ IsSome(claim.click)
    /\ IsSome(claim.drag)
    /\ IsNone(memory.interaction.click_id)
    /\ IsNone(memory.interaction.drag_id)

\* C22 as stated: interact returns hovered only if the pointer is inside the
\* intersection of the widget's rectangle and its clip rectangle, and the topmost
\* layer under the pointer is the widget's layer.
C22_HoveredOnlyInsideRect ==
    phase = "inside" =>
        \A place \in Places, interaction_id \in OptionalIds, sense \in Senses :
            CallResult(place, interaction_id, sense).response.hovered =>
                /\ IsSome(input.mouse.pos)
                /\ RectContains(RectIntersect(place.rect, place.clip_rect),
                                Unwrap(input.mouse.pos))
                /\ LayerIdAt(memory, options.style, Unwrap(input.mouse.pos))
                       = Some(place.layer_id)

\* C22 as amended: interact returns hovered only if the pointer is inside the
\* intersection of the clip rectangle and the widget's rectangle expanded by half the
\* item spacing of the style, and the topmost layer under the pointer is the
\* widget's layer; never when there is no pointer position.
C22_HoveredOnlyInsideExpandedRect ==
    phase = "inside" =>
        \A place \in Places, interaction_id \in OptionalIds, sense \in Senses :
            CallResult(place, interaction_id, sense).response.hovered =>
                /\ IsSome(input.mouse.pos)
                /\ RectContains(
                       RectIntersect(
                           RectExpand2(place.rect, HalfVec(options.style.item_spacing)),
                           place.clip_rect),
                       Unwrap(input.mouse.pos))
                /\ LayerIdAt(memory, options.style, Unwrap(input.mouse.pos))
                       = Some(place.layer_id)

\* C22 witness: an interact call returned hovered for a pointer outside the widget's
\* rectangle, within half the item spacing of it.
C22_Witness ==
    /\ ret.op = "interact"
    /\ ret.response.hovered
    /\ IsSome(input.mouse.pos)
    /\ \A place \in Places :
           \/ ~RectContains(place.rect, Unwrap(input.mouse.pos))
           \/ LayerIdAt(memory, options.style, Unwrap(input.mouse.pos))
                  # Some(place.layer_id)

\* C26: interact changes the click owner or the drag owner only in a frame whose
\* input has pressed, and only for a widget under the pointer; on a release, while
\* the pointer is held or idle, and on a press that misses, both owners stay.
C26_OwnersChangeOnlyOnHoveredPress ==
    phase = "inside" =>
        \A place \in Places, interaction_id \in OptionalIds, sense \in Senses :
            LET res == CallResult(place, interaction_id, sense)
                inside == /\ IsSome(input.mouse.pos)
                          /\ RectContains(
                                 RectIntersect(
                                     RectExpand2(place.rect,
                                                 HalfVec(options.style.item_spacing)),
                                     place.clip_rect),
                                 Unwrap(input.mouse.pos))
                          /\ LayerIdAt(memory, options.style, Unwrap(input.mouse.pos))
                                 = Some(place.layer_id)
            IN  (\/ res.memory.interaction.click_id # memory.interaction.click_id
                 \/ res.memory.interaction.drag_id # memory.interaction.drag_id) =>
                    (input.mouse.pressed /\ inside)

\* C26 witness: the pointer is released over the widget that owns click and drag, and
\* the call that reports the click leaves both owners in place.
C26_Witness ==
    /\ ret.op = "interact"
    /\ ret.response.clicked
    /\ input.mouse.released
    /\ IsSome(memory.interaction.click_id)
    /\ memory.interaction.drag_id = memory.interaction.click_id

\* C27: on a press, a call for a hovered widget with a drag sense takes the drag slot
\* when it is free or held by the window-move placeholder (the owner becomes the
\* widget, the window-move flag false, the pending window interaction none), and
\* leaves the owner and the window interaction as they are when another widget
\* holds the slot.
C27_DragPreemptsWindowMove ==
    (phase = "inside" /\ input.mouse.pressed) =>
        \A place \in Places, id \in Ids, sense \in Senses :
            LET res == CallResult(place, Some(id), sense)
                it == memory.interaction
            IN  (sense.drag /\ res.response.hovered) =>
                    IF IsNone(it.drag_id) \/ it.drag_is_window
                    THEN /\ res.memory.interaction.drag_id = Some(id)
                         /\ ~res.memory.interaction.drag_is_window
                         /\ IsNone(res.memory.window_interaction)
                         /\ res.response.active
                    ELSE /\ res.memory.interaction.drag_id = it.drag_id
                         /\ res.memory.interaction.drag_is_window = it.drag_is_window
                         /\ res.memory.window_interaction = memory.window_interaction

\* C27 witness: the window has taken the drag slot as a placeholder on this press,
\* and a widget with a drag sense is under the pointer to take it over.
C27_Witness ==
    /\ phase = "inside"
    /\ input.mouse.pressed
    /\ memory.interaction.drag_is_window
    /\ memory.interaction.drag_id = Some(WindowId)
    /\ IsSome(memory.window_interaction)
    /\ \E place \in Places, id \in Ids :
           LET res == CallResult(place, Some(id), [click |-> FALSE, drag |-> TRUE])
           IN  /\ res.claimed_drag
               /\ res.memory.interaction.drag_id = Some(id)
               /\ IsNone(res.memory.window_interaction)

\* C30 as stated: an interact call whose sense does not include click never returns
\* clicked or double_clicked.
C30_NoClickWithoutClickSense ==
    phase = "inside" =>
        \A place \in Places, interaction_id \in OptionalIds, sense \in Senses :
            LET res == CallResult(place, interaction_id, sense)
            IN  ~sense.click => (~res.response.clicked /\ ~res.response.double_clicked)

\* C30 as amended: a call with sense nothing never returns clicked or double_clicked,
\* and a call with a drag sense and no click sense returns clicked exactly when the
\* pointer was released over the widget with the could-be-click flag set and the
\* widget's identifier owns click or drag (double_clicked when, besides, the input
\* reports a double click).
C30_DragOwnerClicked ==
    phase = "inside" =>
        \A place \in Places, interaction_id \in OptionalIds :
            LET none == CallResult(place, interaction_id, SenseNothing)
                res == CallResult(place, interaction_id, [click |-> FALSE, drag |-> TRUE])
                owner == \/ memory.interaction.click_id = interaction_id
                         \/ memory.interaction.drag_id = interaction_id
            IN  /\ ~none.response.clicked
                /\ ~none.response.double_clicked
                /\ res.response.clicked <=>
                       /\ IsSome(interaction_id)
                       /\ owner
                       /\ input.mouse.released
                       /\ input.mouse.could_be_click
                       /\ res.response.hovered
                /\ res.response.double_clicked <=>
                       (res.response.clicked /\ input.mouse.double_click)

\* C30 witness: the pointer is released over a widget that owns the drag slot and not
\* the click slot: the call with a drag sense and no click sense returns clicked.
C30_Witness ==
    /\ phase = "inside"
    /\ input.mouse.released
    /\ \E place \in Places, id \in Ids :
           /\ memory.interaction.drag_id = Some(id)
           /\ memory.interaction.click_id # Some(id)
           /\ CallResult(place, Some(id), [click |-> FALSE, drag |-> TRUE]).response.clicked
    /\ ret.op = "interact"
    /\ ret.response.clicked

(***************************************************************************)
(* Properties of the frame controller, under SpecFrame                     *)
(***************************************************************************)
\* C5: when the latest request_repaint was made during frame N or between the end of
\* frame N and the beginning of frame N+1, the output of end_frame of frame N+1
\* reports needs_repaint.
C5_RepaintInNextFrame ==
    (ret.op = "end_frame" /\ req_age = 1) => ret.needs_repaint

\* C5 witness: frame N+1 ended flagged after a single request made within frame N,
\* the counter having reached 0.
C5_Witness ==
    /\ ret.op = "end_frame"
    /\ req_age = 1
    /\ req_inside
    /\ req_calls = 1
    /\ ret.needs_repaint
    /\ repaint_requests = 0

\* C6: when request_repaint was called between begin_frame and end_frame of a frame,
\* the output of that frame's end_frame reports needs_repaint.
C6_RepaintInThisFrame ==
    (ret.op = "end_frame" /\ req_age = 0 /\ req_inside) => ret.needs_repaint

\* C6 witness: a frame whose input wanted no repaint ended flagged because of a call
\* made within it.
C6_Witness ==
    /\ ret.op = "end_frame"
    /\ req_age = 0
    /\ req_inside
    /\ ~input.wants_repaint
    /\ ret.needs_repaint

C8_FlaggedOnlyIfPositiveAfter ==
    (ret.op = "end_frame" /\ ret.needs_repaint) => repaint_requests > 0

\* C8 as amended: end_frame flags needs_repaint exactly when the counter it finds
\* (after its own request_repaint for an input that wants a repaint) is positive
\* before the decrement, and decrements the counter exactly then.
C8_FlaggedIffPositiveBefore ==
    [][(phase = "inside" /\ phase' = "outside") =>
          LET found == IF input.wants_repaint THEN TimesToRepaint ELSE repaint_requests
          IN  /\ ret'.needs_repaint <=> found > 0
              /\ repaint_requests' = IF found > 0 THEN found - 1 ELSE found]_vars

\* C8 witness: an end_frame that found the counter at 1 flagged needs_repaint and
\* left the counter at 0.
C8_Witness ==
    /\ ret.op = "end_frame"
    /\ ret.needs_repaint
    /\ repaint_requests = 0

C10_FontsActiveAtNextFrame ==
    /\ [](ret.op = "fonts" => Some(ret.fonts) = fonts)
    /\ [][IF phase = "outside" /\ phase' = "inside"
          THEN LET fd == [options.font_definitions EXCEPT
                             !.pixels_per_point = input'.pixels_per_point]
                   differ == IsNone(fonts) \/ Unwrap(fonts).definitions # fd
               IN  /\ ret'.rebuilt <=> differ
                   /\ fonts' = IF differ THEN Some(FontsFromDefinitions(fd)) ELSE fonts
          ELSE fonts' = fonts]_vars

\* C10 witness: within a frame, after set_fonts staged other definitions, fonts()
\* returned the font set of the definitions in use since the frame began.
C10_Witness ==
    /\ ret.op = "fonts"
    /\ phase = "inside"
    /\ Some(ret.fonts) = fonts
    /\ options.font_definitions.family # ret.fonts.definitions.family

(***************************************************************************)
(* Properties of animations, under SpecAnimate                             *)
(***************************************************************************)
\* C11: animate_bool calls request_repaint exactly when the progress it returns is
\* strictly between 0 and 1 (a call returning 0 or 1 leaves the repaint counter as it
\* is), and a frame in which an animate_bool call returned such a progress ends with
\* needs_repaint in its output.
C11_AnimationRequestsRepaint ==
    /\ []((ret.op = "end_frame" /\ hist.animating) => ret.needs_repaint)
    /\ [][ret'.op = "animate_bool" =>
             IF 0 < ret'.value /\ ret'.value < ProgressOne
             THEN /\ repaint_requests' = 2
                  /\ req_age' = 0
                  /\ flagged' = 0
             ELSE /\ repaint_requests' = repaint_requests
                  /\ req_age' = req_age
                  /\ req_calls' = req_calls
                  /\ flagged' = flagged]_vars

\* C11 witness: a frame whose input wanted no repaint, and in which an animate_bool
\* call returned a progress in between, ended with needs_repaint.
C11_Witness ==
    /\ ret.op = "end_frame"
    /\ hist.animating
    /\ ~input.wants_repaint
    /\ ret.needs_repaint
    /\ \E i \in Ids : /\ IsSome(animation_manager[i])
                      /\ Unwrap(animation_manager[i]).progress \in 1..(ProgressOne - 1)

(***************************************************************************)
(* Properties of the layout, under SpecLayout                              *)
(***************************************************************************)
\* C12 as stated: allocate_left_panel(rect) makes the available rectangle narrower by
\* exactly the width of rect, its other edges unchanged.
C12_WidthReducedByPanelWidth ==
    [][ret'.op = "allocate_left_panel" =>
          LET before == Unwrap(available_rect)
              after == Unwrap(available_rect')
          IN  /\ RectWidth(after) = RectWidth(before) - RectWidth(ret'.panel_rect)
              /\ after.max = before.max
              /\ after.min.y = before.min.y]_vars

\* C12 as amended: allocate_left_panel(rect) moves the left edge of the available
\* rectangle to the right edge of rect, its other edges unchanged; the width is
\* reduced by exactly the width of rect when rect starts at the left edge of the
\* available rectangle.
C12_LeftEdgeMovedToPanel ==
    [][ret'.op = "allocate_left_panel" =>
          LET before == Unwrap(available_rect)
              after == Unwrap(available_rect')
          IN  /\ after.min.x = ret'.panel_rect.max.x
              /\ after.max = before.max
              /\ after.min.y = before.min.y
              /\ ret'.panel_rect.min.x = before.min.x =>
                     RectWidth(after) = RectWidth(before) - RectWidth(ret'.panel_rect)]_vars

\* C12 witness: a left panel one unit wide at the left edge of the whole screen has
\* left the screen less that unit.
C12_Witness ==
    /\ ret.op = "allocate_left_panel"
    /\ ret.panel_rect = RectOf(0, 0, 1, 2)
    /\ available_rect = Some(RectOf(1, 0, 2 * MaxCoord, 2))

\* C13: after allocate_central_panel the available rectangle is the nothing
\* rectangle, the first call of a frame is not flagged, and every later call of the
\* frame is flagged by the assertion, whatever panels are allocated in between.
C13_SecondCentralPanelFlagged ==
    /\ ret.op = "allocate_central_panel" =>
           /\ available_rect = Some(RectNothing)
           /\ hist.central_calls = 1
    /\ (ret.op = "panic" /\ ret.call = "allocate_central_panel") =>
           hist.central_calls >= 2

C16_LargeWindowCovers ==
    ret.op = "constrain_window_rect" =>
        LET screen == Unwrap(available_rect)
            window == ret.window
        IN  /\ RectSize(ret.rect) = RectSize(window)
            /\ RectWidth(window) > RectWidth(screen) =>
                   /\ ret.rect.min.x <= screen.min.x
                   /\ ret.rect.max.x >= screen.max.x
                   /\ screen.min.x - ret.rect.min.x <= RectWidth(window) - RectWidth(screen)
                   /\ ret.rect.max.x - screen.max.x <= RectWidth(window) - RectWidth(screen)
            /\ RectHeight(window) > RectHeight(screen) =>
                   /\ ret.rect.min.y <= screen.min.y
                   /\ ret.rect.max.y >= screen.max.y
                   /\ screen.min.y - ret.rect.min.y <= RectHeight(window) - RectHeight(screen)
                   /\ ret.rect.max.y - screen.max.y <= RectHeight(window) - RectHeight(screen)

\* C16 as amended: the window returned has the size of the window given, and along an
\* axis where the window is larger than the available rectangle it covers the whole
\* extent of the available rectangle and overflows by at most the excess on a side,
\* up to the snapping of its position: each to within half a pixel.
C16_LargeWindowCoversToHalfPixel ==
    ret.op = "constrain_window_rect" =>
        LET screen == Unwrap(available_rect)
            window == ret.window
            ppp == input.pixels_per_point
        IN  /\ RectSize(ret.rect) = RectSize(window)
            /\ RectWidth(window) > RectWidth(screen) =>
                   /\ ppp * (ret.rect.min.x - screen.min.x) <= 1
                   /\ ppp * (screen.max.x - ret.rect.max.x) <= 1
                   /\ ppp * (screen.min.x - ret.rect.min.x
                             - (RectWidth(window) - RectWidth(screen))) <= 1
                   /\ ppp * (ret.rect.max.x - screen.max.x
                             - (RectWidth(window) - RectWidth(screen))) <= 1
            /\ RectHeight(window) > RectHeight(screen) =>
                   /\ ppp * (ret.rect.min.y - screen.min.y) <= 1
                   /\ ppp * (screen.max.y - ret.rect.max.y) <= 1
                   /\ ppp * (screen.min.y - ret.rect.min.y
                             - (RectHeight(window) - RectHeight(screen))) <= 1
                   /\ ppp * (ret.rect.max.y - screen.max.y
                             - (RectHeight(window) - RectHeight(screen))) <= 1

\* C16 witness: a window wider than the available rectangle of a frame's panels was
\* returned with its size, overflowing on both sides.
C16_Witness ==
    /\ ret.op = "constrain_window_rect"
    /\ RectWidth(Unwrap(available_rect)) > 0
    /\ RectWidth(ret.window) > RectWidth(Unwrap(available_rect))
    /\ RectSize(ret.rect) = RectSize(ret.window)
    /\ ret.rect.min.x < Unwrap(available_rect).min.x
    /\ ret.rect.max.x > Unwrap(available_rect).max.x

C14_CollisionIffRegisteredInFrame ==
    ret.op = "register_unique_id" =>
        /\ ret.errors > 0 <=> hist.registered[ret.given] >= 2
        /\ ret.errors > 0 => graphics # {}
        /\ ret.id = ret.given

\* C14 witness: an identifier registered in the frame before is registered for the
\* first time in this frame with no diagnostic, in a frame where another identifier
\* has collided.
C14_Witness ==
    /\ ret.op = "register_unique_id"
    /\ ret.errors = 0
    /\ ret.given \in hist.registered_before
    /\ hist.registered[ret.given] = 1
    /\ \E i \in Ids : hist.registered[i] >= 2
    /\ graphics # {}


\* C24: within a frame the available rectangle only shrinks: after every call of
\* allocate_left_panel, allocate_top_panel or allocate_central_panel it is empty or
\* lies inside the available rectangle from before the call.
C24_AvailableShrinks ==
    [][(/\ phase = "inside"
        /\ ret'.op \in {"allocate_left_panel", "allocate_top_panel",
                        "allocate_central_panel"}
        /\ IsSome(available_rect)
        /\ IsSome(available_rect')) =>
           LET before == Unwrap(available_rect)
               after == Unwrap(available_rect')
           IN  \/ after.min.x > after.max.x
               \/ after.min.y > after.max.y
               \/ /\ before.min.x <= after.min.x
                  /\ before.min.y <= after.min.y
                  /\ after.max.x <= before.max.x
                  /\ after.max.y <= before.max.y]_vars

\* C25: after every begin_frame the available rectangle is the screen rectangle of the
\* new input, the rectangle used by panels is empty, and the area of the background
\* layer is interactable and spans that screen rectangle, whatever the frame before
\* allocated.
C25_FrameStartsOnNewScreen ==
    /\ [](ret.op = "begin_frame" =>
              /\ available_rect = Some(RectFromMinSize(pos2(0, 0), input.screen_size))
              /\ used_by_panels = Some(RectNothing)
              /\ IsSome(memory.areas[LayerBackground])
              /\ Unwrap(memory.areas[LayerBackground]).interactable
              /\ AreaRect(Unwrap(memory.areas[LayerBackground]))
                     = RectFromMinSize(pos2(0, 0), input.screen_size))
    /\ [][\A raw \in RawResizedInputs :
              BeginFrame(raw) =>
                  /\ input'.screen_size = raw.screen_size
                  /\ available_rect'
                         = Some(RectFromMinSize(pos2(0, 0), raw.screen_size))]_vars

\* C25 witness: a frame has begun on a screen of another size than the frame before,
\* in which panels were allocated, with the whole new screen available.
C25_Witness ==
    /\ ret.op = "begin_frame"
    /\ hist.resized_after_panels
    /\ input.screen_size = vec2(2, 2)
    /\ available_rect = Some(RectOf(0, 0, 2, 2))
    /\ used_by_panels = Some(RectNothing)

\* C29: repaint requests die out: no more than two end_frame outputs after the last
\* request report needs_repaint, and if from some frame on nothing requests a repaint
\* (no request_repaint call, no input that wants one), then from some point on the
\* counter is 0 and every end_frame reports needs_repaint = false.
C29_RepaintsDieOut ==
    /\ [](flagged <= TimesToRepaint)
    /\ [](flagged = TimesToRepaint => repaint_requests = 0)
    /\ (<>[](req_age # 0)) =>
           <>[](/\ repaint_requests = 0
                /\ ret.op = "end_frame" => ~ret.needs_repaint)

\* C29 witness: two end_frame outputs after the last request reported needs_repaint,
\* and a later end_frame, with the counter at 0, reports none.
C29_Witness ==
    /\ ret.op = "end_frame"
    /\ ~ret.needs_repaint
    /\ req_age = MaxAge
    /\ flagged = TimesToRepaint
    /\ repaint_requests = 0

\* C23: with request_repaint calls of other threads interleaved with the steps of
\* end_frame, the repaint counter is always 0, 1 or 2 (it neither exceeds 2 nor wraps
\* below 0), and no request is lost: once the frame after the one in which a request
\* was made has ended, an end_frame since the request has reported needs_repaint.
C23_RepaintCounterRace ==
    /\ repaint_requests \in 0..TimesToRepaint
    /\ (phase = "outside" /\ req_age >= 1) => flagged >= 1
    /\ (phase = "outside" /\ req_age = 0 /\ req_inside) => flagged >= 1

\* C23 witness: a request_repaint came between the load of a zero counter and the
\* return of end_frame: that end_frame reports no repaint and the counter holds the
\* request for the next one.
C23_Witness ==
    /\ phase = "outside"
    /\ ret.op = "end_frame"
    /\ ~ret.needs_repaint
    /\ req_age = 0
    /\ ~req_inside
    /\ repaint_requests = TimesToRepaint

\* the mutexes taken while another one is held, over all calls
HeldAt(prog, k) ==
    {m \in Mutexes :
        \E i \in 1..(k - 1) :
            /\ prog[i] = Lock(m)
            /\ \A j \in (i + 1)..(k - 1) : prog[j] # Unlock(m)}
\* an order of the mutexes: every call takes them in ascending order
LockRank ==
    [options |-> 1, animation_manager |-> 1, output |-> 1, paint_stats |-> 1,
     memory |-> 1, used_ids |-> 1, available_rect |-> 1,
     used_by_panels |-> 2, graphics |-> 2]
LocksAscend ==
    \A call \in Calls :
        \A k \in 1..Len(CallLocks[call]) :
            CallLocks[call][k].do = "lock" =>
                \A held \in HeldAt(CallLocks[call], k) :
                    LockRank[held] < LockRank[CallLocks[call][k].mutex]
\* a thread stands before a lock that is taken
Waiting(t) ==
    /\ Busy(t)
    /\ ~AtEnd(t)
    /\ NextStep(t).do = "lock"
    /\ mutex_owner[NextStep(t).mutex] # NoThread

\* C28: no call locks a mutex it already holds, the mutexes taken while another is
\* held form no cycle, and concurrent calls never deadlock: in no set of threads
\* does every thread wait for a mutex held by a thread of the set, so that whenever
\* a call is under way some thread can take its next step.
C28_NoDeadlock ==
    /\ \A t \in Threads : Waiting(t) => mutex_owner[NextStep(t).mutex] # t
    /\ LocksAscend
    /\ \A S \in (SUBSET Threads) \ {{}} :
           \E t \in S : ~(Waiting(t) /\ mutex_owner[NextStep(t).mutex] \in S)
    /\ (\E t \in Threads : Busy(t)) => \E t \in Threads : Busy(t) /\ ~Waiting(t)

\* C28 witness: a thread in end_frame holds memory and waits for graphics, which a
\* thread in register_unique_id holds together with used_ids.
C28_Witness ==
    \E t1, t2 \in Threads :
        /\ t1 # t2
        /\ thread_call[t1].call = "end_frame"
        /\ thread_call[t2].call = "register_unique_id_clash"
        /\ mutex_owner["memory"] = t1
        /\ mutex_owner["used_ids"] = t2
        /\ mutex_owner["graphics"] = t2
        /\ Waiting(t1)
        /\ NextStep(t1).mutex = "graphics"
====
